---- MODULE Spec2Model ----
(***************************************************************************)
(* Chest-hunt expected-value solver (idle_slayer_chest_hunt.py).           *)
(*                                                                         *)
(* A CH object is a record of its twelve attributes.  A CHValue is a       *)
(* record of three numbers.  The program computes with decimal.Decimal;    *)
(* here every number is an exact rational <<n, d>> in lowest terms with    *)
(* d > 0, so the rounding of Decimal to 28 significant digits is not       *)
(* represented and ARMORY_RATE is the rational 1/200.                      *)
(*                                                                         *)
(* CH.solved maps a CH to a CHValue *object*.  calculate_value stores a    *)
(* freshly built object under exactly one key, so an object held by the    *)
(* cache is identified by its key: a reference to a CHValue is modelled    *)
(* as its contents plus `alias`, the key of the cache entry that is the    *)
(* same object (<<>> when the object is not in the cache).                 *)
(***************************************************************************)
EXTENDS Integers, Sequences, FiniteSets, TLC

(***************************************************************************)
(* Bounds of the model.                                                    *)
(***************************************************************************)
\* largest chests count of an initial CH of Spec
SpecChests == 3
\* number of top-level calculate_value calls in one behaviour of Spec
MaxCalls == 2
\* largest chests, mimics, saves and doubles of an initial CH of SpecStep
MaxChests == 4
MaxMimics == 2
MaxSaves == 1
MaxDoubles == 1
\* chests of the CH objects the drivers build in SpecRun, in place of the
\* constructor's default of 30
RunChests == 6

(***************************************************************************)
(* Exact rational arithmetic (stands for decimal.Decimal).                 *)
(***************************************************************************)
\* The helpers below are functions, so that an argument is evaluated once,
\* where it is applied.
Abs(x) == IF x < 0 THEN -x ELSE x

GCD[a \in Nat, b \in Nat] == IF b = 0 THEN a ELSE GCD[b, a % b]

\* the rational n/d, d # 0, in lowest terms with a positive denominator
RatF[n \in Int, d \in Int] ==
    LET g == GCD[Abs(n), Abs(d)]
        s == IF d < 0 THEN -1 ELSE 1
    IN  <<s * (n \div g), s * (d \div g)>>
Rat(n, d) == RatF[n, d]

\* Decimal(n) for an integer n
Decimal(n) == <<n, 1>>

RAddF[x \in Int \X Int, y \in Int \X Int] ==
    LET l == (x[2] \div GCD[x[2], y[2]]) * y[2]
    IN  RatF[x[1] * (l \div x[2]) + y[1] * (l \div y[2]), l]
RAdd(x, y) == RAddF[x, y]

RMulF[x \in Int \X Int, y \in Int \X Int] ==
    LET a == RatF[x[1], y[2]]
        b == RatF[y[1], x[2]]
    IN  <<a[1] * b[1], a[2] * b[2]>>
RMul(x, y) == RMulF[x, y]

RLeq(x, y) == RAdd(y, <<-x[1], x[2]>>)[1] >= 0

(***************************************************************************)
(* Constants of the program.                                               *)
(***************************************************************************)
\* line 22: the float 0.005, taken as the rational 1/200
ARMORY_RATE == <<1, 200>>
\* the defaults of CH.__init__
DefaultChests == 30
DefaultMimics == 4

LOOT == "LOOT"
MIMIC == "MIMIC"
SAVER == "SAVER"
DOUBLER == "DOUBLER"
CHType == {LOOT, MIMIC, SAVER, DOUBLER}

(***************************************************************************)
(* class CHValue                                                           *)
(***************************************************************************)
CHValue(loot, perfect, armory) ==
    [loot |-> loot, perfect |-> perfect, armory |-> armory]

\* CHValue.__add__
VAdd(v, w) ==
    CHValue(RAdd(v.loot, w.loot), RAdd(v.perfect, w.perfect),
            RAdd(v.armory, w.armory))

\* CHValue.__mul__ / __rmul__
VMul(v, k) == CHValue(RMul(v.loot, k), RMul(v.perfect, k), RMul(v.armory, k))

(***************************************************************************)
(* class CH                                                                *)
(***************************************************************************)
\* CH.__init__
CH(chests, mimics, savers, saves, ad, csaves, doublers, doubles, dd, perfect, armory) ==
    LET dd1 == IF doublers > 1 THEN TRUE ELSE dd
        perfect1 == IF doublers > 1 THEN FALSE ELSE perfect
    IN  [chests |-> chests, mimics |-> mimics, savers |-> savers,
         saves |-> saves, ad |-> ad, csaves |-> csaves,
         doublers |-> doublers, doubles |-> doubles, dd |-> dd1,
         perfect |-> perfect1, armory |-> armory, chase |-> perfect1]

\* a key that leaves `armory` out of the comparison
key_without_armory(ch) ==
    <<ch.chests, ch.mimics, ch.savers, ch.saves, ch.ad, ch.csaves,
      ch.doublers, ch.doubles, ch.dd, ch.perfect, ch.chase, TRUE>>

\* CH.__eq__ / CH.__hash__: the tuple of the twelve compared attributes
key(ch) ==
    <<ch.chests, ch.mimics, ch.savers, ch.saves, ch.ad, ch.csaves,
      ch.doublers, ch.doubles, ch.dd, ch.perfect, ch.chase, ch.armory>>

\* CH.copy without the assignment ch.chase = self.chase
copy_without_chase(self) ==
    CH(self.chests, self.mimics, self.savers, self.saves, self.ad,
       self.csaves, self.doublers, self.doubles, self.dd, self.perfect,
       self.armory)

\* CH.copy
copy(self) ==
    [CH(self.chests, self.mimics, self.savers, self.saves, self.ad,
        self.csaves, self.doublers, self.doubles, self.dd, self.perfect,
        self.armory) EXCEPT !.chase = self.chase]

\* CH.stop that leaves the savers out of the chests that are not loot
stop_without_savers(self, cache) ==
    LET doublers == IF self.doublers > 0 THEN 1 ELSE 0
        nonloot == self.mimics + doublers
        default == nonloot >= self.chests \/ self.chests <= 0
    IN  key(self) \in DOMAIN cache \/ default

\* CH.stop without the test `self in CH.solved`
stop_ignoring_cache(self, cache) ==
    LET doublers == IF self.doublers > 0 THEN 1 ELSE 0
        nonloot == self.mimics + self.savers + doublers
        default == nonloot >= self.chests \/ self.chests <= 0
    IN  default

\* CH.stop with > in place of >= in the default test
stop_strict(self, cache) ==
    LET doublers == IF self.doublers > 0 THEN 1 ELSE 0
        nonloot == self.mimics + self.savers + doublers
        default == nonloot > self.chests \/ self.chests <= 0
    IN  key(self) \in DOMAIN cache \/ default

\* CH.stop, `cache` being CH.solved
stop(self, cache) ==
    LET doublers == IF self.doublers > 0 THEN 1 ELSE 0
        nonloot == self.mimics + self.savers + doublers
        default == nonloot >= self.chests \/ self.chests <= 0
    IN  key(self) \in DOMAIN cache \/ default

\* CH.value without the test chests >= 0
value_ignoring_sign(self, cache) ==
    LET perfect == self.mimics >= self.chests
        default == CHValue(Decimal(0), Decimal(IF perfect THEN 1 ELSE 0), Decimal(0))
    IN  IF key(self) \in DOMAIN cache THEN cache[key(self)] ELSE default

\* CH.value with mimics > chests in place of mimics >= chests
value_strict(self, cache) ==
    LET perfect == self.mimics > self.chests /\ self.chests >= 0
        default == CHValue(Decimal(0), Decimal(IF perfect THEN 1 ELSE 0), Decimal(0))
    IN  IF key(self) \in DOMAIN cache THEN cache[key(self)] ELSE default

\* CH.value, `cache` being CH.solved
value(self, cache) ==
    LET perfect == self.mimics >= self.chests /\ self.chests >= 0
        default == CHValue(Decimal(0), Decimal(IF perfect THEN 1 ELSE 0), Decimal(0))
    IN  IF key(self) \in DOMAIN cache THEN cache[key(self)] ELSE default

\* CH.next that leaves the chest count alone when a saver is opened
next_saver_keeps_chest(self, type) ==
    LET ch0 == copy(self)
        ch1 == IF type = SAVER THEN ch0 ELSE [ch0 EXCEPT !.chests = @ - 1]
        ch == IF self.csaves > 0 THEN [ch1 EXCEPT !.csaves = @ - 1] ELSE ch1
    IN  CASE type = LOOT ->
               IF self.doubles > 0 THEN [ch EXCEPT !.doubles = @ - 1] ELSE ch
          [] type = MIMIC ->
               IF self.csaves <= 0
               THEN [ch EXCEPT !.mimics = @ - 1, !.saves = @ - 1]
               ELSE [ch EXCEPT !.mimics = @ - 1]
          [] type = SAVER ->
               IF ~self.dd /\ self.doubles > 0
               THEN [ch EXCEPT !.savers = @ - 1, !.saves = @ + 2,
                               !.doubles = @ - 1]
               ELSE [ch EXCEPT !.savers = @ - 1, !.saves = @ + 1]
          [] type = DOUBLER ->
               IF self.csaves > 1 /\ self.ad /\ ~self.dd
               THEN [ch EXCEPT !.doublers = @ - 1, !.doubles = @ + 1,
                               !.chase = ~self.perfect]
               ELSE [ch EXCEPT !.doublers = @ - 1, !.doubles = @ + 1]

\* CH.next with one slip: "mimic" spends a save on every mimic, "crystal"
\* lets a crystal save expire only on a mimic, "double" spends a double on
\* every loot chest
next_with(self, type, slip) ==
    LET ch0 == copy(self)
        ch1 == [ch0 EXCEPT !.chests = @ - 1]
        ch == IF self.csaves > 0 /\ (slip # "crystal" \/ type = MIMIC)
              THEN [ch1 EXCEPT !.csaves = @ - 1] ELSE ch1
    IN  CASE type = LOOT ->
               IF self.doubles > 0 \/ slip = "double"
               THEN [ch EXCEPT !.doubles = @ - 1] ELSE ch
          [] type = MIMIC ->
               IF self.csaves <= 0 \/ slip = "mimic"
               THEN [ch EXCEPT !.mimics = @ - 1, !.saves = @ - 1]
               ELSE [ch EXCEPT !.mimics = @ - 1]
          [] type = SAVER ->
               IF ~self.dd /\ self.doubles > 0
               THEN [ch EXCEPT !.savers = @ - 1, !.saves = @ + 2,
                               !.doubles = @ - 1]
               ELSE [ch EXCEPT !.savers = @ - 1, !.saves = @ + 1]
          [] type = DOUBLER ->
               IF self.csaves > 1 /\ self.ad /\ ~self.dd
               THEN [ch EXCEPT !.doublers = @ - 1, !.doubles = @ + 1,
                               !.chase = ~self.perfect]
               ELSE [ch EXCEPT !.doublers = @ - 1, !.doubles = @ + 1]

\* CH.next spending a regular save on a mimic a crystal save covers
next_mimic_spends_save(self, type) == next_with(self, type, "mimic")

\* CH.next with crystal saves that expire by mimics faced
next_crystal_by_mimic(self, type) == next_with(self, type, "crystal")

\* CH.next spending a double on a loot chest when none is held
next_loot_spends_double(self, type) == next_with(self, type, "double")

\* CH.next
next(self, type) ==
    LET ch0 == copy(self)
        ch1 == [ch0 EXCEPT !.chests = @ - 1]
        ch == IF self.csaves > 0 THEN [ch1 EXCEPT !.csaves = @ - 1] ELSE ch1
    IN  CASE type = LOOT ->
               IF self.doubles > 0 THEN [ch EXCEPT !.doubles = @ - 1] ELSE ch
          [] type = MIMIC ->
               IF self.csaves <= 0
               THEN [ch EXCEPT !.mimics = @ - 1, !.saves = @ - 1]
               ELSE [ch EXCEPT !.mimics = @ - 1]
          [] type = SAVER ->
               IF ~self.dd /\ self.doubles > 0
               THEN [ch EXCEPT !.savers = @ - 1, !.saves = @ + 2,
                               !.doubles = @ - 1]
               ELSE [ch EXCEPT !.savers = @ - 1, !.saves = @ + 1]
          [] type = DOUBLER ->
               IF self.csaves > 1 /\ self.ad /\ ~self.dd
               THEN [ch EXCEPT !.doublers = @ - 1, !.doubles = @ + 1,
                               !.chase = ~self.perfect]
               ELSE [ch EXCEPT !.doublers = @ - 1, !.doubles = @ + 1]

\* the denominator of _chance_doubler, _chance_mimic and _chance_loot
effectiveChests(self) == self.chests - (IF self.ad THEN self.savers ELSE 0)

\* CH._chance_doubler weighing every doubler left, not one doubler chest
chance_doubler_by_count(self) ==
    Rat(IF self.doublers > 0 THEN self.doublers ELSE 0, effectiveChests(self))

\* CH._chance_doubler
chance_doubler(self) ==
    Rat(IF self.doublers > 0 THEN 1 ELSE 0, effectiveChests(self))

\* CH._chance_mimic
chance_mimic(self) == Rat(self.mimics, effectiveChests(self))

\* CH._chance_loot that does not take the mimics out of the loot chests
chance_loot_counting_mimics(self) ==
    LET savers == IF self.ad THEN 0 ELSE self.savers
        chests == effectiveChests(self)
        doublers == IF self.doublers > 0 THEN 1 ELSE 0
    IN  Rat(chests - savers - doublers, chests)

\* CH._chance_loot
chance_loot(self) ==
    LET savers == IF self.ad THEN 0 ELSE self.savers
        chests == effectiveChests(self)
        doublers == IF self.doublers > 0 THEN 1 ELSE 0
    IN  Rat(chests - self.mimics - savers - doublers, chests)

\* CH.chance
chance(self, type) ==
    CASE type = LOOT -> chance_loot(self)
      [] type = MIMIC -> chance_mimic(self)
      [] type = SAVER -> Rat(self.savers, self.chests)
      [] type = DOUBLER -> chance_doubler(self)

(***************************************************************************)
(* calculate_value, as one call: the result of calling it on `ch` with     *)
(* CH.solved = cache.  It yields                                           *)
(*   value  the contents of the returned CHValue,                          *)
(*   alias  <<k>> when the returned object is the one stored in the cache  *)
(*          under key k, <<>> when it is an object the cache does not hold,*)
(*   solved CH.solved when the call returns,                               *)
(*   nexts  the number of CH.next calls made during the call.              *)
(***************************************************************************)
\* the saver rule without its third case (no doubler left to find)
openSaver_without_doubler_rule(ch) ==
    /\ ch.savers > 0
    /\ ch.ad
    /\ \/ ch.chase /\ ch.doubles > 0
       \/ ~ch.chase /\ ch.csaves <= 0

\* the saver rule with its second case taken whether or not chase is set
openSaver_ignoring_chase(ch) ==
    /\ ch.savers > 0
    /\ ch.ad
    /\ \/ ch.chase /\ ch.doubles > 0
       \/ ch.csaves <= 0
       \/ ch.doublers <= 0

\* the skip-priority saver rule of calculate_value: open the saver now
openSaver(ch) ==
    /\ ch.savers > 0
    /\ ch.ad
    /\ \/ ch.chase /\ ch.doubles > 0
       \/ ~ch.chase /\ ch.csaves <= 0
       \/ ch.doublers <= 0

\* the guards with the mimic branch taken whether or not a save is held
takes_mimic_without_save(ch, type) ==
    CASE type = SAVER -> ch.savers > 0 /\ ~ch.ad
      [] type = DOUBLER -> ch.doublers > 0
      [] type = MIMIC -> ch.mimics > 0
      [] type = LOOT -> TRUE

\* the guard of each weighted branch of calculate_value
takes(ch, type) ==
    CASE type = SAVER -> ch.savers > 0 /\ ~ch.ad
      [] type = DOUBLER -> ch.doublers > 0
      [] type = MIMIC -> ch.mimics > 0 /\ (ch.saves > 0 \/ ch.csaves > 0)
      [] type = LOOT -> TRUE

\* the loot reward with the gain doubled whether or not a double is held
lootGain_always_doubled(ch) ==
    LET armory == IF ch.armory THEN ARMORY_RATE ELSE Decimal(0)
        loot == RAdd(Decimal(1), <<-armory[1], armory[2]>>)
    IN  VMul(CHValue(loot, Decimal(0), armory), Decimal(2))

\* the immediate reward of the loot branch: gain * CHValue(loot, armory)
lootGain(ch) ==
    LET gain == IF ch.doubles > 0 THEN 2 ELSE 1
        armory == IF ch.armory THEN ARMORY_RATE ELSE Decimal(0)
        loot == RAdd(Decimal(1), <<-armory[1], armory[2]>>)
    IN  VMul(CHValue(loot, Decimal(0), armory), Decimal(gain))

\* the entry CH.solved[ch] = value
store(cache, ch, v) ==
    (key(ch) :> v) @@ cache

\* the element of a one-element set: Only({e(x) : x \in {d}}) is e(x) for
\* x = d, with d evaluated once
Only(S) == CHOOSE x \in S : TRUE

RECURSIVE calculate_value(_, _)
\* value += ch.chance(type) * calculate_value(ch.next(type)), when taken
branch(acc, ch, type) ==
    IF ~takes(ch, type) THEN acc
    ELSE Only({ [value |-> VAdd(acc.value, VMul(r.value, chance(ch, type))),
                 solved |-> r.solved,
                 nexts |-> acc.nexts + 1 + r.nexts] :
                r \in {calculate_value(next(ch, type), acc.solved)} })

\* the body of calculate_value
calculate_value_body(ch, cache) ==
    IF stop(ch, cache)
    THEN [value |-> value(ch, cache),
          alias |-> IF key(ch) \in DOMAIN cache THEN <<key(ch)>> ELSE <<>>,
          solved |-> cache, nexts |-> 0]
    ELSE IF openSaver(ch)
    THEN Only({ [r EXCEPT !.nexts = @ + 1] :
                r \in {calculate_value(next(ch, SAVER), cache)} })
    ELSE Only({ [value |-> a5.value, alias |-> <<key(ch)>>,
                 solved |-> store(a5.solved, ch, a5.value),
                 nexts |-> a5.nexts] :
           a5 \in { branch(a4, ch, LOOT) :
           a4 \in { [a3 EXCEPT !.value =
                        VAdd(@, VMul(lootGain(ch), chance(ch, LOOT)))] :
           a3 \in { branch(a2, ch, MIMIC) :
           a2 \in { branch(a1, ch, DOUBLER) :
           a1 \in { branch([value |-> value(ch, cache), solved |-> cache,
                            nexts |-> 0], ch, SAVER) } } } } } })

calculate_value(ch0, cache0) ==
    Only({ calculate_value_body(ch, cache) : ch \in {ch0}, cache \in {cache0} })

\* the empty CH.solved
EmptyCache == <<>>

(***************************************************************************)
(* State.                                                                  *)
(***************************************************************************)
VARIABLES
    solved,     \* CH.solved: key of a CH |-> contents of its CHValue object
    arg,        \* the CH of the latest top-level calculate_value call
    ret,        \* what that call returned: [value, alias]
    nexts,      \* number of CH.next calls made during that call
    calls,      \* number of top-level calls made so far
    stack,      \* SpecStep: the activation records of calculate_value
    pc,         \* SpecRun: the place the program has reached
    main_value, \* SpecRun: `value` of __main__, a reference [value, alias]
    main_value_ad,  \* SpecRun: `value_ad` of __main__, a reference
    it,         \* SpecRun: index of the next config of make_csv's loop
    row         \* SpecRun: the latest row make_csv wrote

drv == <<pc, main_value, main_value_ad, it, row>>
vars == <<solved, arg, ret, nexts, calls, stack, pc, main_value,
          main_value_ad, it, row>>

NoCH == CH(0, 0, 0, 0, FALSE, 0, 0, 0, FALSE, FALSE, FALSE)
NoRet == [value |-> CHValue(Decimal(0), Decimal(0), Decimal(0)),
          alias |-> <<>>]
NoRow == [config |-> <<>>]

\* the driver variables before any driver statement has run
InitDrv ==
    /\ pc = "main"
    /\ main_value = NoRet
    /\ main_value_ad = NoRet
    /\ it = 0
    /\ row = NoRow

(***************************************************************************)
(* Spec: a caller makes top-level calls of calculate_value, one after the  *)
(* other, on CH objects of its choice; CH.solved is never reset.           *)
(***************************************************************************)
SpecInputs ==
    { CH(c, m, s, 0, ad, 0, 0, 0, FALSE, FALSE, a) :
        c \in (SpecChests - 1) .. SpecChests, m \in 0 .. 1, s \in 0 .. 1,
        ad \in BOOLEAN, a \in BOOLEAN }

Init ==
    /\ solved = EmptyCache
    /\ arg = NoCH
    /\ ret = NoRet
    /\ nexts = 0
    /\ calls = 0
    /\ stack = <<>>
    /\ InitDrv

\* a top-level call calculate_value(ch)
Call ==
    /\ calls < MaxCalls
    /\ \E ch \in SpecInputs :
          \E r \in {calculate_value(ch, solved)} :
              /\ solved' = r.solved
              /\ ret' = [value |-> r.value, alias |-> r.alias]
              /\ nexts' = r.nexts
              /\ arg' = ch
    /\ calls' = calls + 1
    /\ UNCHANGED <<stack, drv>>

Next == Call

Spec == Init /\ [][Next]_vars

(***************************************************************************)
(* SpecStep: one top-level call of calculate_value, statement by           *)
(* statement.  An activation record holds the CH it was called on, the     *)
(* local `value`, and the place it has reached:                            *)
(*   "enter"    lines 287-289, value = ch.value() and the stop check       *)
(*   "saver"    line 293        "doubler"  line 312                        *)
(*   "mimic"    line 318        "loot"     line 324                        *)
(*   "store"    line 331                                                   *)
(*   "tail"     waiting for the call at line 297, 301 or 305               *)
(*   "ret_T"    waiting for the recursive call of branch T                 *)
(* When the record on top is waiting, the call it made has returned and    *)
(* `ret` holds what it returned.                                           *)
(***************************************************************************)
\* the configuration lists of make_csv
config_saver == <<0, 1>>
config_ad == <<0, 1>>
config_csaver == <<0, 1, 2>>
config_doubler == <<0, 1, 2>>
config_perfect == <<0, 1>>
config_armory == <<0, 1>>

Range(list) == {list[i] : i \in 1 .. Len(list)}

\* CH(chests=30, mimics=4, savers=0, doublers=0, armory=False)
Scenario ==
    CH(DefaultChests, DefaultMimics, 0, 0, FALSE, 0, 0, 0, FALSE, FALSE, FALSE)

\* the CH objects a caller may hand to calculate_value: non-negative
\* counts, and the exhausted hunts (chests <= 0) with any mimics
StepInputs ==
    { ch \in { CH(c, m, s, sv, ad, cs, d, db, dd, p, a) :
                 c \in -1 .. MaxChests, m \in -1 .. MaxMimics,
                 s \in Range(config_saver), sv \in 0 .. MaxSaves,
                 ad \in BOOLEAN, cs \in Range(config_csaver),
                 d \in Range(config_doubler),
                 db \in 0 .. MaxDoubles, dd \in BOOLEAN, p \in BOOLEAN,
                 a \in BOOLEAN } :
        ch.mimics >= 0 \/ ch.chests <= 0 }
    \cup {Scenario}

Frame(ch) ==
    [ch |-> ch, value |-> CHValue(Decimal(0), Decimal(0), Decimal(0)),
     pc |-> "enter"]

Top == stack[Len(stack)]
Pop == SubSeq(stack, 1, Len(stack) - 1)
SetTop(f) == [stack EXCEPT ![Len(stack)] = f]

pcOf(type) ==
    CASE type = SAVER -> "saver" [] type = DOUBLER -> "doubler"
      [] type = MIMIC -> "mimic" [] type = LOOT -> "loot"
waitOf(type) ==
    CASE type = SAVER -> "ret_saver" [] type = DOUBLER -> "ret_doubler"
      [] type = MIMIC -> "ret_mimic" [] type = LOOT -> "ret_loot"
afterOf(type) ==
    CASE type = SAVER -> "doubler" [] type = DOUBLER -> "mimic"
      [] type = MIMIC -> "loot" [] type = LOOT -> "store"

\* CH.solved is empty and the caller has just called calculate_value(arg)
InitStep ==
    /\ solved = EmptyCache
    /\ arg \in StepInputs
    /\ ret = NoRet
    /\ nexts = 0
    /\ calls = 1
    /\ stack = <<Frame(arg)>>
    /\ InitDrv

\* lines 287-289: if ch.stop(): return value
StepStop ==
    /\ stack # <<>>
    /\ Top.pc = "enter"
    /\ stop(Top.ch, solved)
    /\ ret' = [value |-> value(Top.ch, solved),
               alias |-> IF key(Top.ch) \in DOMAIN solved
                         THEN <<key(Top.ch)>> ELSE <<>>]
    /\ stack' = Pop
    /\ UNCHANGED <<solved, arg, nexts, calls, drv>>

\* lines 287-288: the stop check fails
StepEnter ==
    /\ stack # <<>>
    /\ Top.pc = "enter"
    /\ ~stop(Top.ch, solved)
    /\ stack' = SetTop([Top EXCEPT !.value = value(Top.ch, solved),
                                   !.pc = "saver"])
    /\ UNCHANGED <<solved, arg, ret, nexts, calls, drv>>

\* lines 293-305: return calculate_value(ch.next(CHType.SAVER)), the call
StepOpenSaver ==
    /\ stack # <<>>
    /\ Top.pc = "saver"
    /\ openSaver(Top.ch)
    /\ stack' = Append(SetTop([Top EXCEPT !.pc = "tail"]),
                       Frame(next(Top.ch, SAVER)))
    /\ nexts' = nexts + 1
    /\ UNCHANGED <<solved, arg, ret, calls, drv>>

\* lines 297, 301, 305: the return of what that call returned
StepTail ==
    /\ stack # <<>>
    /\ Top.pc = "tail"
    /\ stack' = Pop
    /\ UNCHANGED <<solved, arg, ret, nexts, calls, drv>>

\* lines 307, 313, 319, 327-328: a weighted branch is taken, up to its call
StepBranch(type) ==
    /\ stack # <<>>
    /\ Top.pc = pcOf(type)
    /\ takes(Top.ch, type)
    /\ stack' = Append(SetTop([Top EXCEPT
                                 !.value = IF type = LOOT
                                           THEN VAdd(@, VMul(lootGain(Top.ch),
                                                             chance(Top.ch, LOOT)))
                                           ELSE @,
                                 !.pc = waitOf(type)]),
                       Frame(next(Top.ch, type)))
    /\ nexts' = nexts + 1
    /\ UNCHANGED <<solved, arg, ret, calls, drv>>

\* lines 293-318: the guard of a branch fails
StepSkip(type) ==
    /\ stack # <<>>
    /\ Top.pc = pcOf(type)
    /\ ~takes(Top.ch, type)
    /\ ~(type = SAVER /\ openSaver(Top.ch))
    /\ stack' = SetTop([Top EXCEPT !.pc = afterOf(type)])
    /\ UNCHANGED <<solved, arg, ret, nexts, calls, drv>>

\* lines 307, 313, 319, 328: value += ch.chance(type) * <what was returned>
StepReturn(type) ==
    /\ stack # <<>>
    /\ Top.pc = waitOf(type)
    /\ stack' = SetTop([Top EXCEPT
                          !.value = VAdd(@, VMul(ret.value,
                                                 chance(Top.ch, type))),
                          !.pc = afterOf(type)])
    /\ UNCHANGED <<solved, arg, ret, nexts, calls, drv>>

\* lines 331-332: CH.solved[ch] = value; return value
StepStore ==
    /\ stack # <<>>
    /\ Top.pc = "store"
    /\ solved' = store(solved, Top.ch, Top.value)
    /\ ret' = [value |-> Top.value, alias |-> <<key(Top.ch)>>]
    /\ stack' = Pop
    /\ UNCHANGED <<arg, nexts, calls, drv>>

NextStep ==
    \/ StepStop
    \/ StepEnter
    \/ StepOpenSaver
    \/ StepTail
    \/ \E type \in CHType : StepBranch(type)
    \/ \E type \in CHType \ {LOOT} : StepSkip(type)
    \/ \E type \in CHType : StepReturn(type)
    \/ StepStore

SpecStep == InitStep /\ [][NextStep]_vars

\* the interpreter runs the call to its end
SpecStepFair == SpecStep /\ WF_vars(NextStep)

\* the top-level call of SpecStep has returned
Returned == calls = 1 /\ stack = <<>>

(***************************************************************************)
(* SpecSeq: sequences of at most MaxCalls top-level calls of               *)
(* calculate_value, each run step by step as in SpecStep, all over the one *)
(* CH.solved.                                                              *)
(***************************************************************************)
InitSeq ==
    /\ solved = EmptyCache
    /\ arg \in SpecInputs
    /\ ret = NoRet
    /\ nexts = 0
    /\ calls = 1
    /\ stack = <<Frame(arg)>>
    /\ InitDrv

\* the previous call has returned and the caller calls calculate_value(ch)
SeqCall ==
    /\ stack = <<>>
    /\ calls < MaxCalls
    /\ \E ch \in SpecInputs :
          /\ arg' = ch
          /\ stack' = <<Frame(ch)>>
    /\ calls' = calls + 1
    /\ nexts' = 0
    /\ UNCHANGED <<solved, ret, drv>>

NextSeq ==
    \/ NextStep
    \/ SeqCall

SpecSeq == InitSeq /\ [][NextSeq]_vars

(***************************************************************************)
(* SpecRun: the program's run, __main__ followed by make_csv, over the one *)
(* CH.solved.  The CH objects the drivers build take RunChests for the    *)
(* constructor's default chests and keep its default mimics.  The          *)
(* formatted columns and the printed lines read the values and change      *)
(* nothing; they are left out.                                             *)
(***************************************************************************)
\* CH(savers=, ad=, csaves=, doublers=, perfect=, armory=) as the drivers
\* call it, the other parameters at their defaults
driverCH(savers, ad, csaves, doublers, perfect, armory) ==
    CH(RunChests, DefaultMimics, savers, 0, ad, csaves, doublers, 0, FALSE,
       perfect, armory)

\* line 415: ch
main_ch == driverCH(1, FALSE, 2, 1, TRUE, TRUE)
\* lines 416-417: ch_ad = ch.copy(); ch_ad.ad = True
main_ch_ad == [copy(main_ch) EXCEPT !.ad = TRUE]

\* the contents of the object a reference points to
deref(ref, cache) ==
    IF ref.alias # <<>> THEN cache[ref.alias[1]] ELSE ref.value

\* value.loot += 3 * value.perfect * value.loot, on the contents
tripled(v) ==
    [v EXCEPT !.loot = RAdd(v.loot,
                            RMul(RMul(Decimal(3), v.perfect), v.loot))]

\* CH.solved after that statement ran on the object `ref` points to
adjustCache(ref, cache) ==
    IF ref.alias # <<>>
    THEN [cache EXCEPT ![ref.alias[1]] = tripled(@)]
    ELSE cache

\* the reference after that statement ran on the object it points to
adjustRef(ref) ==
    IF ref.alias # <<>> THEN ref ELSE [ref EXCEPT !.value = tripled(@)]

\* itertools.product of the six lists, in its order: the i-th config, i >= 0
NConfigs ==
    Len(config_perfect) * Len(config_ad) * Len(config_doubler)
        * Len(config_csaver) * Len(config_saver) * Len(config_armory)
configAt(i) ==
    LET la == Len(config_armory)
        ls == Len(config_saver)
        lc == Len(config_csaver)
        ld == Len(config_doubler)
        lad == Len(config_ad)
        lp == Len(config_perfect)
    IN  [a |-> config_armory[(i % la) + 1],
         s |-> config_saver[((i \div la) % ls) + 1],
         cs |-> config_csaver[((i \div (la * ls)) % lc) + 1],
         d |-> config_doubler[((i \div (la * ls * lc)) % ld) + 1],
         ad |-> config_ad[((i \div (la * ls * lc * ld)) % lad) + 1],
         p |-> config_perfect[((i \div (la * ls * lc * ld * lad)) % lp) + 1]]

\* lines 377-380: the configs make_csv passes over
pointless(c) ==
    \/ c.ad > 0 /\ c.s < 1
    \/ c.p > 0 /\ (c.ad < 1 \/ c.d # 1)

\* lines 382-389: the CH of a config
configCH(c) == driverCH(c.s, c.ad > 0, c.cs, c.d, c.p > 0, c.a > 0)

\* line 419: value = calculate_value(ch)
MainSolve ==
    /\ pc = "main"
    /\ \E r \in {calculate_value(main_ch, solved)} :
           /\ solved' = r.solved
           /\ ret' = [value |-> r.value, alias |-> r.alias]
           /\ main_value' = [value |-> r.value, alias |-> r.alias]
           /\ nexts' = r.nexts
    /\ arg' = main_ch
    /\ calls' = calls + 1
    /\ pc' = "solve_ad"
    /\ UNCHANGED <<stack, main_value_ad, it, row>>

\* line 420: value_ad = calculate_value(ch_ad)
MainSolveAd ==
    /\ pc = "solve_ad"
    /\ \E r \in {calculate_value(main_ch_ad, solved)} :
           /\ solved' = r.solved
           /\ ret' = [value |-> r.value, alias |-> r.alias]
           /\ main_value_ad' = [value |-> r.value, alias |-> r.alias]
           /\ nexts' = r.nexts
    /\ arg' = main_ch_ad
    /\ calls' = calls + 1
    /\ pc' = "adjust"
    /\ UNCHANGED <<stack, main_value, it, row>>

\* line 424: value.loot += 3 * value.perfect * value.loot
MainAdjust ==
    /\ pc = "adjust"
    /\ solved' = adjustCache(main_value, solved)
    /\ main_value' = adjustRef(main_value)
    /\ pc' = "adjust_ad"
    /\ UNCHANGED <<arg, ret, nexts, calls, stack, main_value_ad, it, row>>

\* line 425: value_ad.loot += 3 * value_ad.perfect * value_ad.loot
\* (lines 427-440 format and print; line 442 enters make_csv)
MainAdjustAd ==
    /\ pc = "adjust_ad"
    /\ solved' = adjustCache(main_value_ad, solved)
    /\ main_value_ad' = adjustRef(main_value_ad)
    /\ pc' = "csv"
    /\ UNCHANGED <<arg, ret, nexts, calls, stack, main_value, it, row>>

\* lines 376-380: continue
CsvSkip ==
    /\ pc = "csv"
    /\ it < NConfigs
    /\ pointless(configAt(it))
    /\ it' = it + 1
    /\ UNCHANGED <<solved, arg, ret, nexts, calls, stack, pc, main_value,
                   main_value_ad, row>>

\* lines 382-411: solve the config's CH, adjust the Value, write the row
CsvRow ==
    /\ pc = "csv"
    /\ it < NConfigs
    /\ ~pointless(configAt(it))
    /\ \E ch \in {configCH(configAt(it))} :
       \E r \in {calculate_value(ch, solved)} :
       \E ref \in {[value |-> r.value, alias |-> r.alias]} :
       \E cache \in {adjustCache(ref, r.solved)} :
       \E v \in {deref(adjustRef(ref), cache)} :
           /\ solved' = cache
           /\ ret' = adjustRef(ref)
           /\ nexts' = r.nexts
           /\ arg' = ch
           /\ row' = [config |-> configAt(it), ch |-> ch,
                      solvedValue |-> r.value,
                      loot |-> v.loot, perfect |-> v.perfect,
                      armory |-> v.armory]
    /\ calls' = calls + 1
    /\ it' = it + 1
    /\ UNCHANGED <<stack, pc, main_value, main_value_ad>>

\* line 361: the loop is exhausted; the program ends
CsvEnd ==
    /\ pc = "csv"
    /\ it = NConfigs
    /\ pc' = "done"
    /\ UNCHANGED <<solved, arg, ret, nexts, calls, stack, main_value,
                   main_value_ad, it, row>>

NextRun ==
    \/ MainSolve
    \/ MainSolveAd
    \/ MainAdjust
    \/ MainAdjustAd
    \/ CsvSkip
    \/ CsvRow
    \/ CsvEnd

SpecRun == Init /\ [][NextRun]_vars

(***************************************************************************)
(* Claims checked under Spec.                                              *)
(***************************************************************************)
\* calculate_value(ch) started from an empty CH.solved
fresh(ch) == calculate_value(ch, EmptyCache)

\* the default branch of CH.stop: the CH is a base case whatever the cache
defaultStop(ch) == stop(ch, EmptyCache)

\* C1: memoization soundness.  Whatever calls came before and whatever they
\* left in CH.solved, a call returns the same (loot, perfect, armory) as a
\* call on an equal CH started from an empty cache.
C1_MemoizationSound ==
    calls > 0 => ret.value = fresh(arg).value

\* C1 witness: a second call answered from the cache alone.
C1_Witness ==
    /\ calls = 2
    /\ nexts = 0
    /\ ret.alias = <<key(arg)>>
    /\ ret.value = fresh(arg).value

\* C3: idempotent caching, as claimed.  Once calculate_value(s) has
\* returned, the total computed for s is stored in CH.solved under s, and a
\* second call with that cache returns the same Value without a single call
\* of CH.next.
C3_IdempotentCaching ==
    calls > 0 =>
        LET again == calculate_value(arg, solved)
        IN  /\ ~defaultStop(arg) => key(arg) \in DOMAIN solved
            /\ again.value = ret.value
            /\ again.nexts = 0

(***************************************************************************)
(* Claims checked under SpecStep.                                          *)
(***************************************************************************)
\* all seven counts of a CH are non-negative
NonNegative(ch) ==
    /\ ch.chests >= 0 /\ ch.mimics >= 0 /\ ch.savers >= 0 /\ ch.saves >= 0
    /\ ch.csaves >= 0 /\ ch.doublers >= 0 /\ ch.doubles >= 0

\* the invariant expected at construction
WellFormed(ch) ==
    NonNegative(ch) /\ ch.chests >= ch.mimics + ch.savers + ch.doublers

\* C4: from a well-formed initial CH, every Value a call of calculate_value
\* returns (the top-level call and every recursive one) has perfect in the
\* closed interval [0, 1].
C4_PerfectInUnitInterval ==
    (calls = 1 /\ WellFormed(arg)) =>
        /\ RLeq(Decimal(0), ret.value.perfect)
        /\ RLeq(ret.value.perfect, Decimal(1))

\* C4 witness: a skip-priority hunt with mimics has returned a perfect
\* strictly between 0 and 1.
C4_Witness ==
    /\ Returned /\ WellFormed(arg) /\ arg.ad /\ arg.mimics > 0
    /\ ~RLeq(ret.value.perfect, Decimal(0))
    /\ ~RLeq(Decimal(1), ret.value.perfect)

\* C5: every activation record of calculate_value is for a CH with exactly
\* one chest less than its caller's, the number of nested recursive calls
\* never exceeds the initial chests (so no CH occurs twice on the stack),
\* and the top-level call returns.
C5_StackDecreases ==
    /\ \A i \in 1 .. Len(stack) : stack[i].ch.chests = arg.chests - (i - 1)
    /\ Len(stack) > 0 =>
          Len(stack) - 1 <= (IF arg.chests > 0 THEN arg.chests ELSE 0)
C5_Terminates == [](C5_StackDecreases) /\ <>Returned

\* C5 witness: the recursion is as deep as the initial chests allow.
C5_Witness ==
    /\ arg.chests = MaxChests
    /\ Len(stack) = MaxChests + 1
    /\ C5_StackDecreases

\* C6: from an initial CH with non-negative counts, every CH that passed
\* the stop check (on which the chance formulas may be evaluated) has both
\* denominators strictly positive.
C6_NoZeroDenominator ==
    NonNegative(arg) =>
        \A i \in 1 .. Len(stack) :
            stack[i].pc # "enter" =>
                /\ stack[i].ch.chests > 0
                /\ effectiveChests(stack[i].ch) > 0

\* C6 witness: a chance was computed over a denominator reduced by the
\* savers of a skip-priority CH.
C6_Witness ==
    /\ NonNegative(arg)
    /\ stack # <<>>
    /\ Top.pc = "ret_mimic"
    /\ Top.ch.ad /\ Top.ch.savers > 0
    /\ effectiveChests(Top.ch) > 0
    /\ effectiveChests(Top.ch) < Top.ch.chests

\* C7 as claimed: for chests <= 0, negative chests included,
\* calculate_value returns loot = 0, armory = 0 and perfect = 1 if
\* mimics >= chests, else 0.
C7_AsClaimed ==
    (Returned /\ arg.chests <= 0) =>
        /\ ret.value.loot = Decimal(0)
        /\ ret.value.armory = Decimal(0)
        /\ ret.value.perfect =
              Decimal(IF arg.mimics >= arg.chests THEN 1 ELSE 0)

\* C7 amended: for chests <= 0, calculate_value returns loot = 0,
\* armory = 0 and perfect = 1 if mimics >= chests and chests >= 0 (that is,
\* chests = 0 and mimics >= 0), else 0; perfect is 0 for negative chests.
C7_ExhaustedHunt ==
    (Returned /\ arg.chests <= 0) =>
        /\ ret.value.loot = Decimal(0)
        /\ ret.value.armory = Decimal(0)
        /\ ret.value.perfect =
              Decimal(IF arg.mimics >= arg.chests /\ arg.chests >= 0
                      THEN 1 ELSE 0)

\* C7 witness: a hunt with negative chests and mimics >= chests returned 0.
C7_Witness ==
    /\ Returned
    /\ arg.chests < 0
    /\ arg.mimics >= arg.chests
    /\ ret.value = CHValue(Decimal(0), Decimal(0), Decimal(0))

\* no mimics, no doublers, no savers
OnlyLoot(ch) ==
    ch.mimics = 0 /\ ch.doublers = 0 /\ ch.savers = 0 /\ ch.chests >= 0

\* C8 as claimed: with mimics = doublers = savers = 0 and chests = n >= 0,
\* whatever the other fields, perfect = 1 and loot = n exactly.
C8_AsClaimed ==
    (Returned /\ OnlyLoot(arg)) =>
        /\ ret.value.perfect = Decimal(1)
        /\ ret.value.loot = Decimal(arg.chests)

\* C8 amended: with mimics = doublers = savers = 0 and chests = n >= 0,
\* perfect = 1 whatever the other fields, and loot = n exactly when in
\* addition armory is off and no double is held.
C8_Conservation ==
    (Returned /\ OnlyLoot(arg)) =>
        /\ ret.value.perfect = Decimal(1)
        /\ (~arg.armory /\ arg.doubles = 0) =>
              ret.value.loot = Decimal(arg.chests)

\* C8 witness: such a hunt of MaxChests chests returned loot = MaxChests.
C8_Witness ==
    /\ Returned /\ OnlyLoot(arg)
    /\ ~arg.armory /\ arg.doubles = 0
    /\ arg.chests = MaxChests
    /\ ret.value.loot = Decimal(MaxChests)
    /\ ret.value.perfect = Decimal(1)

\* the binomial coefficient C(n, k)
Binomial[n \in Nat, k \in Nat] ==
    IF k = 0 THEN 1
    ELSE IF k > n THEN 0
    ELSE (Binomial[n - 1, k - 1] * n) \div k

\* no savers, no doublers, no held saves or crystal saves
NoTokens(ch) ==
    /\ ch.savers = 0 /\ ch.doublers = 0 /\ ch.saves = 0 /\ ch.csaves = 0
    /\ 0 <= ch.mimics /\ ch.mimics <= ch.chests

\* C9: with chests = n, mimics = m, 0 <= m <= n, no savers, no doublers
\* and no held saves or crystal saves, perfect = 1 / C(n, m); 1/27405 for
\* chests = 30, mimics = 4.
C9_PerfectClosedForm ==
    (Returned /\ NoTokens(arg)) =>
        ret.value.perfect = <<1, Binomial[arg.chests, arg.mimics]>>

\* C9 witness: the hunt of 30 chests and 4 mimics returned 1/27405.
C9_Witness ==
    /\ Returned
    /\ arg = Scenario
    /\ arg.chests = 30 /\ arg.mimics = 4
    /\ ret.value.perfect = <<1, 27405>>

(***************************************************************************)
(* Claims checked under SpecRun.                                           *)
(***************************************************************************)
\* C2 as claimed: every row make_csv writes has raw loot L + 3*P*L, where
\* (L, P) are the loot and perfect calculate_value returns for the row's CH
\* from an empty cache: the adjustment is applied exactly once.
C2_AdjustedOnce ==
    row # NoRow =>
        row.loot = tripled(fresh(row.ch).value).loot

\* the config with every toggle off
ZeroConfig(c) ==
    c.a = 0 /\ c.s = 0 /\ c.cs = 0 /\ c.d = 0 /\ c.ad = 0 /\ c.p = 0

Zero == CHValue(Decimal(0), Decimal(0), Decimal(0))

\* chance(type) * calculate_value(transition(ch, type)), from an empty cache
weighted(ch, type) == VMul(fresh(next(ch, type)).value, chance(ch, type))

\* the three conditions of the skip-priority saver rule, as claimed
SaverRule(ch) ==
    \/ ch.chase /\ ch.doubles > 0
    \/ ~ch.chase /\ ch.csaves <= 0
    \/ ch.doublers <= 0

\* the sum of the Doubler, Mimic and Loot branches of ch, without a Saver
\* branch
SumWithoutSaver(ch) ==
    LET d == IF ch.doublers > 0 THEN weighted(ch, DOUBLER) ELSE Zero
        m == IF ch.mimics > 0 /\ (ch.saves > 0 \/ ch.csaves > 0)
             THEN weighted(ch, MIMIC) ELSE Zero
        l == VAdd(VMul(lootGain(ch), chance(ch, LOOT)), weighted(ch, LOOT))
    IN  VAdd(VAdd(d, m), l)

\* C11: skip-priority saver rule.  In a non-stop CH with ad and savers > 0,
\* when one of the three conditions holds the call does nothing but return
\* what calculate_value(next(SAVER)) returns; otherwise its result is the
\* sum of the Doubler, Mimic and Loot branches only.  No activation of a CH
\* with ad ever waits for a Saver branch weighted by chance(SAVER).
C11_SkipPrioritySaver ==
    /\ \A i \in 1 .. Len(stack) :
          (stack[i].ch.ad /\ stack[i].pc # "enter") =>
              /\ stack[i].pc # "ret_saver"
              /\ stack[i].ch.savers > 0 =>
                    /\ SaverRule(stack[i].ch) =>
                          stack[i].pc \in {"saver", "tail"}
                    /\ ~SaverRule(stack[i].ch) => stack[i].pc # "tail"
    /\ (Returned /\ arg.ad /\ arg.savers > 0 /\ ~defaultStop(arg)) =>
          ret.value = IF SaverRule(arg)
                      THEN fresh(next(arg, SAVER)).value
                      ELSE SumWithoutSaver(arg)

\* C11 witness: a skip-priority call that still had a doubler to find and
\* crystal saves left fell through, and returned the three-branch sum.
C11_Witness ==
    /\ Returned
    /\ arg.ad /\ arg.savers > 0 /\ arg.mimics > 0 /\ ~defaultStop(arg)
    /\ ~SaverRule(arg)
    /\ ret.value = SumWithoutSaver(arg)
    /\ ret.value # fresh(next(arg, SAVER)).value

\* the kind of the transition by which activation i called activation i + 1
kindAt(i) ==
    CASE stack[i].pc \in {"tail", "ret_saver"} -> SAVER
      [] stack[i].pc = "ret_doubler" -> DOUBLER
      [] stack[i].pc = "ret_mimic" -> MIMIC
      [] stack[i].pc = "ret_loot" -> LOOT

\* C12: token discipline on mimics.  A Mimic transition is taken only from
\* a CH with saves > 0 or csaves > 0; it lowers saves by 1 exactly when
\* csaves <= 0 before it and leaves saves alone when csaves > 0; no other
\* kind of transition lowers saves.
C12_MimicTokens ==
    \A i \in 1 .. Len(stack) - 1 :
        /\ kindAt(i) = MIMIC =>
              /\ stack[i].ch.saves > 0 \/ stack[i].ch.csaves > 0
              /\ stack[i + 1].ch.saves =
                    IF stack[i].ch.csaves <= 0
                    THEN stack[i].ch.saves - 1 ELSE stack[i].ch.saves
        /\ kindAt(i) # MIMIC => stack[i + 1].ch.saves >= stack[i].ch.saves
        /\ stack[i + 1].ch.saves < stack[i].ch.saves =>
              stack[i].ch.csaves <= 0

\* C12 witness: a mimic was faced with both a crystal save and a regular
\* save held, and the regular save was kept.
C12_Witness ==
    \E i \in 1 .. Len(stack) - 1 :
        /\ kindAt(i) = MIMIC
        /\ stack[i].ch.csaves > 0 /\ stack[i].ch.saves > 0
        /\ stack[i + 1].ch.saves = stack[i].ch.saves
        /\ stack[i + 1].ch.mimics = stack[i].ch.mimics - 1

\* the larger of two integers
Max(a, b) == IF a >= b THEN a ELSE b

\* C13: crystal saves expire by elapsed chests.  From an initial CH with
\* chests = N and csaves = k, every CH calculate_value is called on has
\* csaves = max(0, k - (N - chests)), whatever kinds of chests were opened.
C13_CrystalExpiry ==
    \A i \in 1 .. Len(stack) :
        stack[i].ch.csaves =
            Max(0, arg.csaves - (arg.chests - stack[i].ch.chests))

\* C13 witness: two crystal saves ran out after two chests, neither of them
\* a mimic.
C13_Witness ==
    /\ arg.csaves = 2
    /\ Len(stack) >= 4
    /\ kindAt(1) # MIMIC /\ kindAt(2) # MIMIC
    /\ stack[3].ch.csaves = 0
    /\ stack[4].ch.csaves = 0
    /\ stack[3].ch.mimics = arg.mimics

\* C14 as claimed: from a well-formed initial CH, doublers = 2 included,
\* every CH calculate_value is called on has
\* chests >= mimics + savers + doublers.
C14_AsClaimed ==
    WellFormed(arg) =>
        \A i \in 1 .. Len(stack) :
            stack[i].ch.chests >=
                stack[i].ch.mimics + stack[i].ch.savers + stack[i].ch.doublers

\* mimics + savers + (1 if doublers > 0 else 0), as CH.stop counts them
nonloot(ch) == ch.mimics + ch.savers + (IF ch.doublers > 0 THEN 1 ELSE 0)

\* C14 amended: from a well-formed initial CH, every CH calculate_value is
\* called on has chests >= mimics + savers + min(doublers, 1), and
\* chests >= mimics + savers + doublers when the initial CH has
\* doublers <= 1.
C14_WellFormedKept ==
    WellFormed(arg) =>
        \A i \in 1 .. Len(stack) :
            /\ stack[i].ch.chests >= nonloot(stack[i].ch)
            /\ arg.doublers <= 1 =>
                  stack[i].ch.chests >=
                      stack[i].ch.mimics + stack[i].ch.savers
                          + stack[i].ch.doublers

\* C14 witness: from a well-formed CH with two doublers the solver is
\* called on a CH with fewer chests than mimics + savers + doublers.
C14_Witness ==
    /\ WellFormed(arg) /\ arg.doublers = 2
    /\ \E i \in 2 .. Len(stack) :
          /\ stack[i].ch.doublers = 2
          /\ stack[i].ch.chests = nonloot(stack[i].ch)
          /\ stack[i].ch.chests <
                stack[i].ch.mimics + stack[i].ch.savers + stack[i].ch.doublers

\* what a Loot transition is claimed to make of ch
afterLoot(ch) ==
    [ch EXCEPT !.chests = @ - 1,
               !.csaves = IF @ > 0 THEN @ - 1 ELSE @,
               !.doubles = IF @ > 0 THEN @ - 1 ELSE @]

\* the CH returned by a transition keeps the strategy fields of its input,
\* keeps chase unless the transition is a Doubler, and differs from its
\* input by chests, csaves and doubles only when the transition is a Loot
C15_Fields ==
    \A i \in 1 .. Len(stack) - 1 :
        /\ stack[i + 1].ch.ad = stack[i].ch.ad
        /\ stack[i + 1].ch.dd = stack[i].ch.dd
        /\ stack[i + 1].ch.perfect = stack[i].ch.perfect
        /\ stack[i + 1].ch.armory = stack[i].ch.armory
        /\ kindAt(i) # DOUBLER => stack[i + 1].ch.chase = stack[i].ch.chase
        /\ kindAt(i) = LOOT => stack[i + 1].ch = afterLoot(stack[i].ch)

\* the CH of a running activation is the same after any step
C15_InputKept ==
    \A i \in 1 .. Len(stack) :
        i <= Len(stack') => stack'[i].ch = stack[i].ch

\* C15: frame of the transition.  CH.next leaves its input unmodified; the
\* returned CH has the input's ad, dd, perfect and armory; chase changes
\* only under a Doubler transition; a Loot transition changes nothing but
\* chests (-1), csaves (-1 if positive) and doubles (-1 if positive).
C15_Frame == [](C15_Fields) /\ [][C15_InputKept]_vars

\* C15 witness: a Loot transition from a CH whose chase had been toggled
\* away from perfect, holding a double and a crystal save.
C15_Witness ==
    \E i \in 2 .. Len(stack) - 1 :
        /\ kindAt(i) = LOOT
        /\ stack[i].ch.chase # stack[i].ch.perfect
        /\ stack[i].ch.doubles > 0 /\ stack[i].ch.csaves > 0
        /\ stack[i + 1].ch = afterLoot(stack[i].ch)
        /\ stack[i + 1].ch.chase = stack[i].ch.chase

\* C17: non-negativity is preserved.  From an initial CH whose seven counts
\* are all >= 0, every CH calculate_value is called on has all seven counts
\* >= 0.
C17_NonNegativeKept ==
    NonNegative(arg) =>
        \A i \in 1 .. Len(stack) : NonNegative(stack[i].ch)

\* C17 witness: the last save was spent on the last mimic, and the hunt
\* went on to its last chest.
C17_Witness ==
    /\ NonNegative(arg)
    /\ \E i \in 1 .. Len(stack) - 1 :
          /\ kindAt(i) = MIMIC
          /\ stack[i].ch.saves = 1 /\ stack[i].ch.csaves = 0
          /\ stack[i].ch.mimics = 1
          /\ stack[i + 1].ch.saves = 0 /\ stack[i + 1].ch.mimics = 0
    /\ stack[Len(stack)].ch.chests = 0
    /\ \A i \in 1 .. Len(stack) : NonNegative(stack[i].ch)

\* x is in [0, 1]
InUnit(x) == RLeq(Decimal(0), x) /\ RLeq(x, Decimal(1))

\* the weight with which calculate_value adds the branch `type` of ch
addedWeight(ch, type) ==
    IF takes(ch, type) THEN chance(ch, type) ELSE Decimal(0)

\* the sum of the weights of the branches calculate_value adds for ch
addedWeights(ch) ==
    RAdd(RAdd(addedWeight(ch, SAVER), addedWeight(ch, DOUBLER)),
         RAdd(addedWeight(ch, MIMIC), addedWeight(ch, LOOT)))

\* chance(Doubler) + chance(Mimic) + chance(Loot), with chance(Saver) added
\* when there is no skip priority
allChances(ch) ==
    RAdd(RAdd(IF ch.ad THEN Decimal(0) ELSE chance(ch, SAVER),
              chance(ch, DOUBLER)),
         RAdd(chance(ch, MIMIC), chance(ch, LOOT)))

\* a mimic exists but neither a save nor a crystal save is held
MimicUnpaid(ch) == ch.mimics > 0 /\ ~(ch.saves > 0 \/ ch.csaves > 0)

\* C18: in every CH that passed the stop check, reached from a well-formed
\* initial CH, each chance used is in [0, 1]; the chances of Doubler, Mimic
\* and Loot, with Saver when there is no skip priority, sum to 1; the
\* weights of the branches added sum to 1 - chance(Mimic) when a mimic
\* exists and no token is held, and to 1 otherwise.  (Each activation is
\* looked at when it has just passed the stop check, its pc = "saver".)
C18_Weights ==
    WellFormed(arg) =>
        \A i \in 1 .. Len(stack) :
            stack[i].pc = "saver" =>
                /\ allChances(stack[i].ch) = Decimal(1)
                /\ ~openSaver(stack[i].ch) =>
                      /\ \A type \in CHType :
                            takes(stack[i].ch, type) =>
                                InUnit(chance(stack[i].ch, type))
                      /\ addedWeights(stack[i].ch) =
                            IF MimicUnpaid(stack[i].ch)
                            THEN RAdd(Decimal(1),
                                      RMul(Decimal(-1),
                                           chance(stack[i].ch, MIMIC)))
                            ELSE Decimal(1)

\* C18 witness: the Saver, Doubler and Loot branches of a CH without skip
\* priority were added, two doublers left, and its Mimic branch was left
\* out for want of a token.
C18_Witness ==
    /\ WellFormed(arg)
    /\ ~arg.ad /\ arg.savers > 0 /\ arg.doublers = 2 /\ arg.mimics > 0
    /\ MimicUnpaid(arg)
    /\ Len(stack) = 1
    /\ stack[1].pc = "store"
    /\ allChances(arg) = Decimal(1)
    /\ InUnit(addedWeights(arg))
    /\ ~RLeq(Decimal(1), addedWeights(arg))

(***************************************************************************)
(* The solver of C19: calculate_value with a Doubler transition that       *)
(* leaves chase as it is.                                                  *)
(***************************************************************************)
\* CH.next without the chase toggle of lines 207-208
next_keeping_chase(self, type) ==
    [next(self, type) EXCEPT !.chase = self.chase]

RECURSIVE solve_keeping_chase(_, _)
branch_keeping_chase(acc, ch, type) ==
    IF ~takes(ch, type) THEN acc
    ELSE Only({ [value |-> VAdd(acc.value, VMul(r.value, chance(ch, type))),
                 solved |-> r.solved] :
                r \in {solve_keeping_chase(next_keeping_chase(ch, type),
                                           acc.solved)} })

solve_keeping_chase_body(ch, cache) ==
    IF stop(ch, cache)
    THEN [value |-> value(ch, cache), solved |-> cache]
    ELSE IF openSaver(ch)
    THEN solve_keeping_chase(next_keeping_chase(ch, SAVER), cache)
    ELSE Only({ [value |-> a5.value,
                 solved |-> store(a5.solved, ch, a5.value)] :
           a5 \in { branch_keeping_chase(a4, ch, LOOT) :
           a4 \in { [a3 EXCEPT !.value =
                        VAdd(@, VMul(lootGain(ch), chance(ch, LOOT)))] :
           a3 \in { branch_keeping_chase(a2, ch, MIMIC) :
           a2 \in { branch_keeping_chase(a1, ch, DOUBLER) :
           a1 \in { branch_keeping_chase(
                        [value |-> value(ch, cache), solved |-> cache],
                        ch, SAVER) } } } } } })

solve_keeping_chase(ch0, cache0) ==
    Only({ solve_keeping_chase_body(ch, cache) :
           ch \in {ch0}, cache \in {cache0} })

\* C19: the chase toggle of the Doubler transition never affects results.
\* For every initial CH the constructor builds, calculate_value returns the
\* Value a solver returns whose Doubler transition leaves chase unchanged.
C19_ChaseToggleIrrelevant ==
    (Returned /\ arg.chests <= MaxChests) =>
        ret.value = solve_keeping_chase(arg, EmptyCache).value

\* C19 witness: a call that toggled chase away from perfect, solved CHs
\* with the toggled chase, and returned the Value of the solver without
\* the toggle.
C19_Witness ==
    /\ Returned
    /\ arg.ad /\ ~arg.dd /\ arg.perfect /\ arg.csaves = 2
    /\ arg.doublers = 1 /\ arg.savers = 1 /\ arg.mimics > 0
    /\ \E k \in DOMAIN solved : k[11] # k[10]
    /\ ~RLeq(ret.value.loot, Decimal(0))
    /\ ret.value = solve_keeping_chase(arg, EmptyCache).value

(***************************************************************************)
(* Claims checked under SpecSeq.                                           *)
(***************************************************************************)
\* an activation that will assign CH.solved[ch] has a ch that is no key yet
C16_StoresFresh ==
    \A i \in 1 .. Len(stack) :
        stack[i].pc \notin {"enter", "tail"} =>
            key(stack[i].ch) \notin DOMAIN solved

\* a step removes no key and changes no entry
C16_Grows ==
    /\ DOMAIN solved \subseteq DOMAIN solved'
    /\ \A k \in DOMAIN solved : solved'[k] = solved[k]

\* C16: cache monotonicity.  Over any sequence of calculate_value calls the
\* key set of CH.solved only grows, and the solver never assigns a key that
\* is already present: each CH receives its cached Value at most once.
C16_CacheMonotone == [](C16_StoresFresh) /\ [][C16_Grows]_vars

\* C16 witness: a second call, helped by entries the first call left, is
\* about to add the key of its own CH to them.
C16_Witness ==
    /\ calls = 2
    /\ Len(stack) = 1
    /\ stack[1].pc = "store"
    /\ solved # EmptyCache
    /\ key(arg) \notin DOMAIN solved
    /\ nexts < fresh(arg).nexts

====
